---- MODULE Spec2Model ----
(***************************************************************************)
(* Model of functions/index.js: the RevenueCat webhook handler that        *)
(* classifies subscription events, keeps one user document per (app, user) *)
(* and one cohort document per (app, trial start date) in Firestore.       *)
(*                                                                         *)
(* Conventions.                                                            *)
(*  - JavaScript null, undefined and "" are all falsy in every place the   *)
(*    handler tests them; they are modelled by the empty string Null.      *)
(*  - A millisecond timestamp does not fit a 32 bit integer, so it is the  *)
(*    pair <<hi, lo>> standing for hi * 10^6 + lo; <<0, 0>> is the falsy   *)
(*    timestamp (0, null or a missing field).                              *)
(*  - A rate, Math.round(x * 10000) / 10000, is kept as the integer        *)
(*    Math.round(x * 10000), i.e. in ten-thousandths.                      *)
(*  - A Firestore document is a record with an exists flag.  The field     *)
(*    updated_at (a server timestamp) is left out: nothing reads it.       *)
(*  - The backfill endpoint (lines 81-132) writes cohort records given by  *)
(*    its caller and is not part of the webhook handler; it is not         *)
(*    modelled.                                                            *)
(***************************************************************************)
EXTENDS Integers, Sequences, FiniteSets, TLC

(***************************************************************************)
(* Bounds of the model.                                                    *)
(***************************************************************************)
\* number of webhook requests delivered in one behaviour with overlapping requests
MaxRequests == 2
\* number of webhook requests delivered in one behaviour of a sequential run
MaxSeqRequests == 3
\* number of requests the hosting layer runs at the same time
MaxInFlight == 2
\* number of webhook requests delivered in one behaviour that explores inputs
MaxInputRequests == 1

Null == ""

(***************************************************************************)
(* Configuration (index.js, lines 9-20).                                   *)
(***************************************************************************)
WEBHOOK_SECRET == "whsec"

SlugOrder == <<"christian-daily-task", "girlwalk", "girltalk">>

APP_SLUGS ==
  [s \in {SlugOrder[i] : i \in 1..Len(SlugOrder)} |->
     CASE s = "christian-daily-task" ->
            <<"com.nicholasseither.christiandailytask", "cdt",
              "christian_daily_task", "christian-daily-task">>
       [] s = "girlwalk" -> <<"com.tangentapps.girlwalk", "girlwalk", "girl_walk">>
       [] s = "girltalk" -> <<"com.tangentapps.girltalk", "girltalk", "girl_talk">>]

Slugs == DOMAIN APP_SLUGS

\* APP_SLUGS is a plain object: APP_SLUGS[name] is also truthy for every
\* property name it inherits from Object.prototype
InheritedKeys ==
  {"constructor", "__proto__", "hasOwnProperty", "isPrototypeOf",
   "propertyIsEnumerable", "toLocaleString", "toString", "valueOf",
   "__defineGetter__", "__defineSetter__", "__lookupGetter__", "__lookupSetter__"}

(***************************************************************************)
(* String helpers: String.prototype.toLowerCase and includes.              *)
(***************************************************************************)
Upper == "ABCDEFGHIJKLMNOPQRSTUVWXYZ"
Lower == "abcdefghijklmnopqrstuvwxyz"

LowerChar(c) ==
  IF \E i \in 1..Len(Upper) : SubSeq(Upper, i, i) = c
  THEN LET i == CHOOSE j \in 1..Len(Upper) : SubSeq(Upper, j, j) = c
       IN  SubSeq(Lower, i, i)
  ELSE c

RECURSIVE toLowerCase(_)
toLowerCase(s) ==
  IF Len(s) = 0 THEN ""
  ELSE LowerChar(SubSeq(s, 1, 1)) \o toLowerCase(SubSeq(s, 2, Len(s)))

includes(s, p) ==
  \E i \in 1..(Len(s) - Len(p) + 1) : SubSeq(s, i, i + Len(p) - 1) = p

(***************************************************************************)
(* resolveApp(productId, appSlugHint), lines 23-33.                        *)
(***************************************************************************)
RECURSIVE FirstSlugFrom(_, _)
FirstSlugFrom(i, pid) ==
  IF i > Len(SlugOrder) THEN Null
  ELSE IF \E k \in 1..Len(APP_SLUGS[SlugOrder[i]]) :
             includes(pid, APP_SLUGS[SlugOrder[i]][k])
       THEN SlugOrder[i]
       ELSE FirstSlugFrom(i + 1, pid)

resolveApp(productId, appSlugHint) ==
  IF appSlugHint # Null /\ appSlugHint \in Slugs \cup InheritedKeys THEN appSlugHint
  ELSE FirstSlugFrom(1, toLowerCase(productId))

(***************************************************************************)
(* classifyFromEvent(eventType, cancelReason, periodType), lines 37-68.    *)
(***************************************************************************)
Statuses == {"Still in Trial", "Converted", "Cancelled", "Billing Issue"}

\* mutant of classifyFromEvent: only BILLING_ERROR counts as a billing issue
classifySupportAsCancelled(eventType, cancelReason, periodType) ==
  CASE eventType = "INITIAL_PURCHASE" ->
         IF periodType = "TRIAL" THEN "Still in Trial" ELSE "Converted"
    [] eventType = "RENEWAL" -> "Converted"
    [] eventType = "CANCELLATION" ->
         IF cancelReason = "BILLING_ERROR" THEN "Billing Issue" ELSE "Cancelled"
    [] eventType = "BILLING_ISSUE" -> "Billing Issue"
    [] eventType = "EXPIRATION" -> "Cancelled"
    [] eventType = "UNCANCELLATION" -> "Still in Trial"
    [] OTHER -> Null

\* mutant of classifyFromEvent: the period type of a purchase not looked at
classifyTrialAsConverted(eventType, cancelReason, periodType) ==
  CASE eventType = "INITIAL_PURCHASE" -> "Converted"
    [] eventType = "RENEWAL" -> "Converted"
    [] eventType = "CANCELLATION" ->
         IF cancelReason = "BILLING_ERROR" \/ cancelReason = "CUSTOMER_SUPPORT"
         THEN "Billing Issue" ELSE "Cancelled"
    [] eventType = "BILLING_ISSUE" -> "Billing Issue"
    [] eventType = "EXPIRATION" -> "Cancelled"
    [] eventType = "UNCANCELLATION" -> "Still in Trial"
    [] OTHER -> Null

\* mutant of classifyFromEvent: the default case classifies instead of skipping
classifyUnknownAsCancelled(eventType, cancelReason, periodType) ==
  CASE eventType = "INITIAL_PURCHASE" ->
         IF periodType = "TRIAL" THEN "Still in Trial" ELSE "Converted"
    [] eventType = "RENEWAL" -> "Converted"
    [] eventType = "CANCELLATION" ->
         IF cancelReason = "BILLING_ERROR" \/ cancelReason = "CUSTOMER_SUPPORT"
         THEN "Billing Issue" ELSE "Cancelled"
    [] eventType = "BILLING_ISSUE" -> "Billing Issue"
    [] eventType = "UNCANCELLATION" -> "Still in Trial"
    [] OTHER -> "Cancelled"

classifyFromEvent(eventType, cancelReason, periodType) ==
  CASE eventType = "INITIAL_PURCHASE" ->
         IF periodType = "TRIAL" THEN "Still in Trial" ELSE "Converted"
    [] eventType = "RENEWAL" -> "Converted"
    [] eventType = "CANCELLATION" ->
         IF cancelReason = "BILLING_ERROR" \/ cancelReason = "CUSTOMER_SUPPORT"
         THEN "Billing Issue" ELSE "Cancelled"
    [] eventType = "BILLING_ISSUE" -> "Billing Issue"
    [] eventType = "EXPIRATION" -> "Cancelled"
    [] eventType = "UNCANCELLATION" -> "Still in Trial"
    [] OTHER -> Null

(***************************************************************************)
(* msToDateKey(ms), lines 71-78.  Date's UTC calendar fields are computed  *)
(* from the day number since 1970-01-01 (proleptic Gregorian calendar).    *)
(***************************************************************************)
MsZero == <<0, 0>>

\* floor(ms / 86400000) for ms = hi * 10^6 + lo
DayNumber(ms) == (ms[1] * 10 + (ms[2] \div 100000)) \div 864

CivilFromDays(days) ==
  LET z   == days + 719468
      era == z \div 146097
      doe == z - era * 146097
      yoe == (doe - (doe \div 1460) + (doe \div 36524) - (doe \div 146096)) \div 365
      doy == doe - (365 * yoe + (yoe \div 4) - (yoe \div 100))
      mp  == (5 * doy + 2) \div 153
      d   == doy - ((153 * mp + 2) \div 5) + 1
      m   == IF mp < 10 THEN mp + 3 ELSE mp - 9
      y   == yoe + era * 400 + (IF m <= 2 THEN 1 ELSE 0)
  IN  [year |-> y, month |-> m, day |-> d]

\* String(n).padStart(2, "0")
padStart2(n) ==
  IF Len(ToString(n)) < 2 THEN "0" \o ToString(n) ELSE ToString(n)

msToDateKey(ms) ==
  IF ms = MsZero THEN Null
  ELSE LET c == CivilFromDays(DayNumber(ms))
       IN  ToString(c.year) \o "-" \o padStart2(c.month) \o "-" \o padStart2(c.day)

\* req.path.replace(/^\//, "").split("/")[0] || null, line 177
RECURSIVE UpToSlash(_)
UpToSlash(s) ==
  IF Len(s) = 0 \/ SubSeq(s, 1, 1) = "/" THEN ""
  ELSE SubSeq(s, 1, 1) \o UpToSlash(SubSeq(s, 2, Len(s)))

pathSlugOf(path) ==
  UpToSlash(IF Len(path) > 0 /\ SubSeq(path, 1, 1) = "/"
            THEN SubSeq(path, 2, Len(path)) ELSE path)

(***************************************************************************)
(* Requests delivered to the webhook.  A request is the record of what the *)
(* handler reads from req: method, headers.authorization, path and the     *)
(* event fields of the body (of body.event, or of the body itself).        *)
(***************************************************************************)
GirlwalkProduct == "com.tangentapps.GirlWalk.pro"
Authorized == "Bearer " \o WEBHOOK_SECRET

\* 2023-11-14T22:13:20Z and 2023-11-15T22:13:20Z
DayOne == <<1700000, 0>>
DayTwo == <<1700086, 400000>>

Request(type, uid, ms) ==
  [method |-> "POST", auth |-> Authorized, path |-> "/",
   type |-> type, app_user_id |-> uid, original_app_user_id |-> Null,
   product_id |-> GirlwalkProduct,
   period_type |-> IF type = "INITIAL_PURCHASE" THEN "TRIAL" ELSE "NORMAL",
   cancel_reason |-> Null, purchased_at_ms |-> ms, environment |-> Null]

UserIds == {"u1", "u2"}

\* requests the handler answers without touching the store
Rejected ==
  {[Request("RENEWAL", "u1", DayOne) EXCEPT !.method = "GET"],
   [Request("RENEWAL", "u1", DayOne) EXCEPT !.auth = Null],
   [Request("RENEWAL", "u1", DayOne) EXCEPT !.auth = "Bearer nope"],
   [Request("RENEWAL", "u1", DayOne) EXCEPT !.auth = "bearer whsec"],
   [Request("RENEWAL", "u1", DayOne) EXCEPT !.method = "GET", !.auth = Null],
   [Request("RENEWAL", "u1", DayOne) EXCEPT !.environment = "SANDBOX"],
   [Request("RENEWAL", Null, DayOne) EXCEPT !.environment = "SANDBOX"],
   Request("RENEWAL", Null, DayOne),
   [Request("RENEWAL", "u1", DayOne) EXCEPT !.product_id = "com.example.other"],
   Request("TRANSFER", "u1", DayOne),
   Request("TRANSFER", Null, DayOne),
   Request("PRODUCT_CHANGE", "u2", MsZero)}

\* a request routed to another application by its path
OtherApp ==
  [Request("INITIAL_PURCHASE", "u1", DayOne) EXCEPT
     !.path = "/girltalk/webhook", !.product_id = Null]

\* requests delivered while other requests may be running
ConcurrentRequests ==
  {Request(t, u, DayOne) :
     t \in {"INITIAL_PURCHASE", "RENEWAL", "CANCELLATION"}, u \in UserIds}
  \cup {Request("INITIAL_PURCHASE", "u1", DayTwo),
        Request("RENEWAL", "u1", MsZero), OtherApp,
        Request("TRANSFER", "u1", DayOne), Request("RENEWAL", Null, DayOne)}

\* requests delivered one at a time
SequentialRequests ==
  {Request(t, u, ms) :
     t \in {"INITIAL_PURCHASE", "RENEWAL", "CANCELLATION", "BILLING_ISSUE"},
     u \in UserIds, ms \in {MsZero, DayOne, DayTwo}}
  \cup {[Request("RENEWAL", Null, DayOne) EXCEPT !.original_app_user_id = "u2"],
        Request("EXPIRATION", "u1", DayOne),
        Request("UNCANCELLATION", "u1", DayOne),
        [Request("INITIAL_PURCHASE", "u1", DayOne) EXCEPT !.period_type = "NORMAL"],
        [Request("CANCELLATION", "u1", DayOne) EXCEPT !.cancel_reason = "BILLING_ERROR"],
        OtherApp}
  \cup Rejected

\* single requests over every event type, cancel reason and period type
ClassifyInputs ==
  {[Request(t, "u1", DayOne) EXCEPT !.cancel_reason = c, !.period_type = p] :
     t \in {"INITIAL_PURCHASE", "RENEWAL", "CANCELLATION", "BILLING_ISSUE",
            "EXPIRATION", "UNCANCELLATION", "TRANSFER", Null},
     c \in {Null, "BILLING_ERROR", "CUSTOMER_SUPPORT", "UNSUBSCRIBE"},
     p \in {Null, "TRIAL", "NORMAL", "INTRO"}}

\* single requests over paths (routing hints) and product identifiers
ResolveInputs ==
  {[Request("RENEWAL", "u1", DayOne) EXCEPT !.path = h, !.product_id = p] :
     h \in {"/", "/girlwalk", "/girltalk/webhook", "/GirlWalk", "/girl",
            "/cdt", "/constructor"},
     p \in {Null, GirlwalkProduct, "com.tangentapps.girltalk.monthly",
            "CDT_yearly", "my_girltalk_cdt", "girl-walk", "com.example.other"}}

\* single requests over methods and authorization headers
AuthInputs ==
  {[Request("RENEWAL", "u1", DayOne) EXCEPT !.method = m, !.auth = a] :
     m \in {"POST", "GET", "PUT"},
     a \in {Authorized, Null, "Bearer nope", "bearer whsec", "whsec",
            "Bearer whsec "}}

\* a trial start and, for every one of them, renewals of the same user
Routings == {<<"/", GirlwalkProduct>>, <<"/girltalk/webhook", Null>>}

TrialStarts ==
  {[Request("INITIAL_PURCHASE", u, ms) EXCEPT !.path = a[1], !.product_id = a[2]] :
     u \in UserIds, ms \in {DayOne, DayTwo}, a \in Routings}

Renewals ==
  {[Request("RENEWAL", u, ms) EXCEPT !.path = a[1], !.product_id = a[2]] :
     u \in UserIds, ms \in {MsZero, DayOne, DayTwo}, a \in Routings}

\* requests delivered while other requests may be running and store calls
\* may fail
LiveRequests ==
  {Request("INITIAL_PURCHASE", "u1", DayOne),
   Request("RENEWAL", "u1", MsZero),
   Request("RENEWAL", Null, DayOne)}

InputRequests == ClassifyInputs \cup ResolveInputs \cup AuthInputs

Requests ==
  ConcurrentRequests \cup SequentialRequests \cup InputRequests
    \cup TrialStarts \cup Renewals \cup LiveRequests

\* the handler's synchronous prefix, lines 153-197: the locals it computes
Locals(e) ==
  [eventType      |-> e.type,
   appUserId      |-> IF e.app_user_id # Null THEN e.app_user_id
                      ELSE e.original_app_user_id,
   productId      |-> e.product_id,
   appSlug        |-> resolveApp(e.product_id, pathSlugOf(e.path)),
   status         |-> classifyFromEvent(e.type, e.cancel_reason, e.period_type),
   trialDate      |-> msToDateKey(e.purchased_at_ms),
   prevStatus     |-> Null,
   trialStartDate |-> Null]

\* computed once for the finite set of requests
LocalsOf == [e \in Requests |-> Locals(e)]

DateKeys == {LocalsOf[e].trialDate : e \in Requests} \ {Null}

\* the applications a request can be routed to
Apps == Slugs \cup ({LocalsOf[e].appSlug : e \in Requests} \ {Null})

(***************************************************************************)
(* Firestore documents.                                                    *)
(***************************************************************************)
NoUser == [exists |-> FALSE, status |-> Null, product |-> Null,
           trial_start_date |-> Null, last_event |-> Null]

NoCohort == [exists |-> FALSE, period |-> Null, total_trials |-> 0,
             in_trial |-> 0, converted |-> 0, cancelled |-> 0, billing_issue |-> 0,
             conversion_rate |-> 0, cancel_rate |-> 0, billing_rate |-> 0]

NoRequest == [Request(Null, Null, MsZero) EXCEPT !.method = Null, !.auth = Null,
                !.path = Null, !.product_id = Null, !.period_type = Null]
NoLocals == [eventType |-> Null, appUserId |-> Null, productId |-> Null,
             appSlug |-> Null, status |-> Null,
             trialDate |-> Null, prevStatus |-> Null, trialStartDate |-> Null]
NoResponse == [code |-> 0, status |-> Null, reason |-> Null]

Procs == 1..MaxInFlight

VARIABLES
  users,      \* apps/{app}/users/{id}
  cohorts,    \* apps/{app}/cohorts/{date}
  pc,         \* where each running handler is suspended
  req,        \* the request each handler was called with
  loc,        \* the handler's local constants
  data,       \* the cohort data read by tx.get in the running transaction attempt
  attempts,   \* the attempts of runTransaction made so far
  resp,       \* the response sent
  started,    \* requests delivered so far
  dup         \* whether the request is the redelivery of the one answered before

vars == <<users, cohorts, pc, req, loc, data, attempts, resp, started, dup>>

Init ==
  /\ users = [k \in Apps \X UserIds |-> NoUser]
  /\ cohorts = [k \in Apps \X DateKeys |-> NoCohort]
  /\ pc = [r \in Procs |-> "idle"]
  /\ req = [r \in Procs |-> NoRequest]
  /\ loc = [r \in Procs |-> NoLocals]
  /\ data = [r \in Procs |-> NoCohort]
  /\ attempts = [r \in Procs |-> 0]
  /\ resp = [r \in Procs |-> NoResponse]
  /\ started = 0
  /\ dup = [r \in Procs |-> FALSE]

(***************************************************************************)
(* The webhook handler, lines 135-273.                                     *)
(***************************************************************************)
\* mutant of EarlyResponse: the missing user id is answered as a skip
EarlyResponseSkipsMissingUser(e, l) ==
  IF e.method # "POST"
    THEN [code |-> 405, status |-> Null, reason |-> "Method not allowed"]
  ELSE IF WEBHOOK_SECRET # Null /\ e.auth # "Bearer " \o WEBHOOK_SECRET
    THEN [code |-> 401, status |-> Null, reason |-> "Unauthorized"]
  ELSE IF (IF e.environment # Null THEN e.environment ELSE "PRODUCTION") = "SANDBOX"
    THEN [code |-> 200, status |-> "skipped", reason |-> "sandbox"]
  ELSE IF l.appUserId = Null
    THEN [code |-> 200, status |-> "skipped", reason |-> "missing app_user_id"]
  ELSE IF l.appSlug = Null
    THEN [code |-> 200, status |-> "skipped", reason |-> "unknown_app"]
  ELSE IF l.status = Null
    THEN [code |-> 200, status |-> "skipped", reason |-> "unhandled_event_type"]
  ELSE [code |-> 0, status |-> Null, reason |-> Null]

\* mutant of EarlyResponse: a request without Authorization header is let in
EarlyResponseAcceptsMissingHeader(e, l) ==
  IF e.method # "POST"
    THEN [code |-> 405, status |-> Null, reason |-> "Method not allowed"]
  ELSE IF WEBHOOK_SECRET # Null /\ e.auth # Null
                                /\ e.auth # "Bearer " \o WEBHOOK_SECRET
    THEN [code |-> 401, status |-> Null, reason |-> "Unauthorized"]
  ELSE IF (IF e.environment # Null THEN e.environment ELSE "PRODUCTION") = "SANDBOX"
    THEN [code |-> 200, status |-> "skipped", reason |-> "sandbox"]
  ELSE IF l.appUserId = Null
    THEN [code |-> 400, status |-> "error", reason |-> "missing app_user_id"]
  ELSE IF l.appSlug = Null
    THEN [code |-> 200, status |-> "skipped", reason |-> "unknown_app"]
  ELSE IF l.status = Null
    THEN [code |-> 200, status |-> "skipped", reason |-> "unhandled_event_type"]
  ELSE NoResponse

\* lines 138-194: the answer given before any store call, or NoResponse
EarlyResponse(e, l) ==
  IF e.method # "POST"
    THEN [code |-> 405, status |-> Null, reason |-> "Method not allowed"]
  ELSE IF WEBHOOK_SECRET # Null /\ e.auth # "Bearer " \o WEBHOOK_SECRET
    THEN [code |-> 401, status |-> Null, reason |-> "Unauthorized"]
  ELSE IF (IF e.environment # Null THEN e.environment ELSE "PRODUCTION") = "SANDBOX"
    THEN [code |-> 200, status |-> "skipped", reason |-> "sandbox"]
  ELSE IF l.appUserId = Null
    THEN [code |-> 400, status |-> "error", reason |-> "missing app_user_id"]
  ELSE IF l.appSlug = Null
    THEN [code |-> 200, status |-> "skipped", reason |-> "unknown_app"]
  ELSE IF l.status = Null
    THEN [code |-> 200, status |-> "skipped", reason |-> "unhandled_event_type"]
  ELSE NoResponse

Ok(l) == [code |-> 200, status |-> "ok", reason |-> l.status]
StorageError == [code |-> 500, status |-> "error", reason |-> "storage"]

\* The request arrives and the handler runs to its first await (line 201),
\* or to an early return.  The slots are interchangeable: the first idle one
\* is taken.
Receive(r, e) ==
  /\ pc[r] = "idle"
  /\ \A q \in Procs : q < r => pc[q] # "idle"
  /\ started' = started + 1
  /\ req' = [req EXCEPT ![r] = e]
  /\ LET l == LocalsOf[e]
         early == EarlyResponse(e, l)
     IN  IF early # NoResponse
         THEN /\ resp' = [resp EXCEPT ![r] = early]
              /\ pc' = [pc EXCEPT ![r] = "responded"]
              /\ loc' = loc
         ELSE /\ loc' = [loc EXCEPT ![r] = l]
              /\ pc' = [pc EXCEPT ![r] = "userRef.get"]
              /\ resp' = resp
  /\ dup' = [dup EXCEPT ![r] = FALSE]
  /\ UNCHANGED <<users, cohorts, data, attempts>>

\* mutant of userKey: the users of all applications kept under one application
userKeySharedAcrossApps(r) == <<"girlwalk", loc[r].appUserId>>

userKey(r) == <<loc[r].appSlug, loc[r].appUserId>>
cohortKey(r) == <<loc[r].appSlug, loc[r].trialStartDate>>

\* mutant of UserGet: the status of the existing user record not taken
UserGetForgetsStatus(r) ==
  /\ pc[r] = "userRef.get"
  /\ LET userSnap == users[userKey(r)]
     IN  loc' = [loc EXCEPT
           ![r].prevStatus = Null,
           ![r].trialStartDate =
              IF userSnap.exists /\ userSnap.trial_start_date # Null
              THEN userSnap.trial_start_date ELSE loc[r].trialDate]
  /\ pc' = [pc EXCEPT ![r] = "userRef.set"]
  /\ UNCHANGED <<users, cohorts, req, data, attempts, resp, started, dup>>

\* lines 201-205: userRef.get() resolves
UserGet(r) ==
  /\ pc[r] = "userRef.get"
  /\ LET userSnap == users[userKey(r)]
     IN  loc' = [loc EXCEPT
           ![r].prevStatus = IF userSnap.exists THEN userSnap.status ELSE Null,
           ![r].trialStartDate =
              IF userSnap.exists /\ userSnap.trial_start_date # Null
              THEN userSnap.trial_start_date ELSE loc[r].trialDate]
  /\ pc' = [pc EXCEPT ![r] = "userRef.set"]
  /\ UNCHANGED <<users, cohorts, req, data, attempts, resp, started, dup>>

\* mutant of UserSet: the write not awaited, the handler goes on before the
\* user record is written
UserSetNotAwaited(r) ==
  /\ pc[r] = "userRef.set"
  /\ users' = users
  /\ IF loc[r].trialStartDate # Null
     THEN /\ pc' = [pc EXCEPT ![r] = "tx.get"]
          /\ resp' = resp
     ELSE /\ pc' = [pc EXCEPT ![r] = "responded"]
          /\ resp' = [resp EXCEPT ![r] = Ok(loc[r])]
  /\ UNCHANGED <<cohorts, req, loc, data, attempts, started, dup>>

\* lines 207-222 and 264-267: userRef.set(..., {merge: true}) resolves; with no
\* cohort key the handler answers at once
UserSet(r) ==
  /\ pc[r] = "userRef.set"
  /\ users' = [users EXCEPT ![userKey(r)] =
       [exists |-> TRUE, status |-> loc[r].status, product |-> loc[r].productId,
        trial_start_date |-> loc[r].trialStartDate,
        last_event |-> loc[r].eventType]]
  /\ IF loc[r].trialStartDate # Null
     THEN /\ pc' = [pc EXCEPT ![r] = "tx.get"]
          /\ resp' = resp
     ELSE /\ pc' = [pc EXCEPT ![r] = "responded"]
          /\ resp' = [resp EXCEPT ![r] = Ok(loc[r])]
  /\ UNCHANGED <<cohorts, req, loc, data, attempts, started, dup>>

\* Math.round((n / t) * 10000), in ten-thousandths
Rate(n, t) == (2 * 10000 * n + t) \div (2 * t)

\* mutants of Decrement: the clamp forgotten, the decrement forgotten
DecrementUnclamped(n) == n - 1
DecrementSkipped(n) == n

\* Math.max(0, n - 1)
Decrement(n) == IF n - 1 > 0 THEN n - 1 ELSE 0

\* mutant of isNewTrial: the previous status not looked at
isNewTrialAnyPurchase(eventType, prevStatus) == eventType = "INITIAL_PURCHASE"

\* line 238
isNewTrial(eventType, prevStatus) ==
  eventType = "INITIAL_PURCHASE" /\ prevStatus = Null

\* lines 226-258: the transaction's update function applied to the data read
Update(d0, period, eventType, prevStatus, status) ==
  LET d1 == [d0 EXCEPT
               !.exists = TRUE,
               !.period = IF d0.exists THEN d0.period ELSE period,
               !.total_trials =
                  IF isNewTrial(eventType, prevStatus) THEN @ + 1 ELSE @]
      d2 == CASE prevStatus = "Still in Trial" ->
                   [d1 EXCEPT !.in_trial = Decrement(@)]
              [] prevStatus = "Converted" ->
                   [d1 EXCEPT !.converted = Decrement(@)]
              [] prevStatus = "Cancelled" ->
                   [d1 EXCEPT !.cancelled = Decrement(@)]
              [] prevStatus = "Billing Issue" ->
                   [d1 EXCEPT !.billing_issue = Decrement(@)]
              [] OTHER -> d1
      d3 == CASE status = "Still in Trial" -> [d2 EXCEPT !.in_trial = @ + 1]
              [] status = "Converted" -> [d2 EXCEPT !.converted = @ + 1]
              [] status = "Cancelled" -> [d2 EXCEPT !.cancelled = @ + 1]
              [] status = "Billing Issue" -> [d2 EXCEPT !.billing_issue = @ + 1]
              [] OTHER -> d2
      t  == IF d3.total_trials # 0 THEN d3.total_trials ELSE 1
  IN  [d3 EXCEPT !.conversion_rate = Rate(d3.converted, t),
                 !.cancel_rate = Rate(d3.cancelled, t),
                 !.billing_rate = Rate(d3.billing_issue, t)]

\* line 225: an attempt of the transaction reads the cohort document
TxGet(r) ==
  /\ pc[r] = "tx.get"
  /\ data' = [data EXCEPT ![r] = cohorts[cohortKey(r)]]
  /\ attempts' = [attempts EXCEPT ![r] = @ + 1]
  /\ pc' = [pc EXCEPT ![r] = "tx.commit"]
  /\ UNCHANGED <<users, cohorts, req, loc, resp, started, dup>>

\* mutant of Conflict: a plain read and write instead of a transaction
ConflictIgnored(r) == FALSE

\* Firestore commits the attempt only if the document it read is unchanged
Conflict(r) == cohorts[cohortKey(r)] # data[r]

\* lines 224-267: the attempt commits and the handler answers ok, or the
\* attempt is aborted and runTransaction runs the update function again
TxCommit(r) ==
  /\ pc[r] = "tx.commit"
  /\ IF Conflict(r)
     THEN /\ pc' = [pc EXCEPT ![r] = "tx.get"]
          /\ UNCHANGED <<cohorts, resp>>
     ELSE /\ cohorts' = [cohorts EXCEPT ![cohortKey(r)] =
                Update(data[r], loc[r].trialStartDate, loc[r].eventType,
                       loc[r].prevStatus, loc[r].status)]
          /\ resp' = [resp EXCEPT ![r] = Ok(loc[r])]
          /\ pc' = [pc EXCEPT ![r] = "responded"]
  /\ UNCHANGED <<users, req, loc, data, attempts, started, dup>>

\* lines 268-271: a store call rejects and the catch block answers 500
StoreFails(r) ==
  /\ pc[r] \in {"userRef.get", "userRef.set", "tx.get", "tx.commit"}
  /\ resp' = [resp EXCEPT ![r] = StorageError]
  /\ pc' = [pc EXCEPT ![r] = "responded"]
  /\ UNCHANGED <<users, cohorts, req, loc, data, attempts, started, dup>>

\* the handler returns; its locals are gone
Return(r) ==
  /\ pc[r] = "responded"
  /\ dup' = [dup EXCEPT ![r] = FALSE]
  /\ pc' = [pc EXCEPT ![r] = "idle"]
  /\ req' = [req EXCEPT ![r] = NoRequest]
  /\ loc' = [loc EXCEPT ![r] = NoLocals]
  /\ data' = [data EXCEPT ![r] = NoCohort]
  /\ attempts' = [attempts EXCEPT ![r] = 0]
  /\ resp' = [resp EXCEPT ![r] = NoResponse]
  /\ UNCHANGED <<users, cohorts, started>>

\* the sender delivers the request it was just answered ok for once more
Redeliver(r) ==
  /\ pc[r] = "responded"
  /\ resp[r].status = "ok"
  /\ started' = started + 1
  /\ dup' = [dup EXCEPT ![r] = TRUE]
  /\ loc' = [loc EXCEPT ![r] = LocalsOf[req[r]]]
  /\ data' = [data EXCEPT ![r] = NoCohort]
  /\ attempts' = [attempts EXCEPT ![r] = 0]
  /\ resp' = [resp EXCEPT ![r] = NoResponse]
  /\ pc' = [pc EXCEPT ![r] = "userRef.get"]
  /\ UNCHANGED <<users, cohorts, req>>

Idle == \A r \in Procs : pc[r] = "idle"

\* requests overlap as the hosting layer schedules them
Next ==
  \/ \E r \in Procs, e \in ConcurrentRequests :
        started < MaxRequests /\ Receive(r, e)
  \/ \E r \in Procs : UserGet(r)
  \/ \E r \in Procs : UserSet(r)
  \/ \E r \in Procs : TxGet(r)
  \/ \E r \in Procs : TxCommit(r)
  \/ \E r \in Procs : Return(r)

Spec == Init /\ [][Next]_vars

\* one request at a time, every store call succeeds
NextSeq ==
  \/ \E r \in Procs, e \in SequentialRequests :
        started < MaxSeqRequests /\ Idle /\ Receive(r, e)
  \/ \E r \in Procs : started < MaxSeqRequests /\ Redeliver(r)
  \/ \E r \in Procs : UserGet(r)
  \/ \E r \in Procs : UserSet(r)
  \/ \E r \in Procs : TxGet(r)
  \/ \E r \in Procs : TxCommit(r)
  \/ \E r \in Procs : Return(r)

SpecSeq == Init /\ [][NextSeq]_vars

\* a trial start delivered to the empty store and, once it is answered ok, a
\* renewal of the same user of the same application
NextTrial ==
  \/ \E e \in TrialStarts : started = 0 /\ Receive(1, e)
  \/ \E e \in Renewals :
        /\ started = 1
        /\ pc[1] = "responded" /\ resp[1].status = "ok"
        /\ LocalsOf[e].appSlug = loc[1].appSlug
        /\ LocalsOf[e].appUserId = loc[1].appUserId
        /\ Receive(2, e)
  \/ \E r \in Procs : UserGet(r)
  \/ \E r \in Procs : UserSet(r)
  \/ \E r \in Procs : TxGet(r)
  \/ \E r \in Procs : TxCommit(r)

SpecTrial == Init /\ [][NextTrial]_vars

\* one request at a time, over the wide sets of inputs
NextInputs ==
  \/ \E r \in Procs, e \in InputRequests :
        started < MaxInputRequests /\ Idle /\ Receive(r, e)
  \/ \E r \in Procs : UserGet(r)
  \/ \E r \in Procs : UserSet(r)
  \/ \E r \in Procs : TxGet(r)
  \/ \E r \in Procs : TxCommit(r)
  \/ \E r \in Procs : Return(r)

SpecInputs == Init /\ [][NextInputs]_vars

\* the next store call of request r returns, with success or for good with an
\* error
StoreCallReturns(r) ==
  UserGet(r) \/ UserSet(r) \/ TxGet(r) \/ TxCommit(r) \/ StoreFails(r)

\* requests overlap and any store call may fail
NextLive ==
  \/ \E r \in Procs, e \in LiveRequests :
        started < MaxRequests /\ Receive(r, e)
  \/ \E r \in Procs : StoreCallReturns(r)
  \/ \E r \in Procs : Return(r)

\* every store call eventually returns and a transaction that has to be
\* tried again is tried again
SpecLive ==
  Init /\ [][NextLive]_vars /\ \A r \in Procs : WF_vars(StoreCallReturns(r))

\* the sender delivers again the event it got a 500 for, while the answered
\* request is still held in slot 1
RedeliverFailed ==
  /\ pc[1] = "responded"
  /\ resp[1].code = 500
  /\ \A q \in Procs : q # 1 => pc[q] = "idle"
  /\ Receive(2, req[1])

\* one request at a time, any store call may fail
NextFaulty ==
  \/ NextSeq
  \/ \E r \in Procs : StoreFails(r)
  \/ started < MaxSeqRequests /\ RedeliverFailed

SpecFaulty == Init /\ [][NextFaulty]_vars

(***************************************************************************)
(* Properties.                                                             *)
(***************************************************************************)
\* the bucket counter of a status, lines 243-252
Bucket(d, s) ==
  CASE s = "Still in Trial" -> d.in_trial
    [] s = "Converted" -> d.converted
    [] s = "Cancelled" -> d.cancelled
    [] s = "Billing Issue" -> d.billing_issue

Counters(d) == <<d.total_trials, d.in_trial, d.converted, d.cancelled, d.billing_issue>>

\* request r has been answered ok after its cohort transaction committed
Committed(r) ==
  /\ pc[r] = "responded"
  /\ resp[r].status = "ok"
  /\ loc[r].trialStartDate # Null

\* the step in which the cohort transaction of r commits
Commits(r) == pc[r] = "tx.commit" /\ pc'[r] = "responded" /\ resp'[r].status = "ok"

\* C1: every bucket counter of every cohort record is >= 0 after any
\* sequence and interleaving of webhook events.
C1_BucketsNonNegative ==
  \A k \in DOMAIN cohorts : \A s \in Statuses : Bucket(cohorts[k], s) >= 0

\* a transaction found the bucket of the previous status at 0, decremented it
\* and committed
C1_Witness ==
  \E r \in Procs :
    /\ Committed(r)
    /\ loc[r].prevStatus # Null
    /\ loc[r].prevStatus # loc[r].status
    /\ Bucket(data[r], loc[r].prevStatus) = 0
    /\ Bucket(cohorts[cohortKey(r)], loc[r].prevStatus) = 0

\* C2: in every cohort record the four buckets sum to at most total_trials,
\* whatever a user's first observed event is.
C2_BucketsWithinTotal ==
  \A k \in DOMAIN cohorts :
    cohorts[k].in_trial + cohorts[k].converted + cohorts[k].cancelled
      + cohorts[k].billing_issue <= cohorts[k].total_trials

\* C3: after every request of a sequential run, each bucket counter of each
\* cohort equals the number of user records of that application with that
\* trial_start_date and that status.
C3_BucketsCountUsers ==
  (\A r \in Procs : pc[r] \in {"idle", "responded"}) =>
    \A k \in DOMAIN cohorts : \A s \in Statuses :
      Bucket(cohorts[k], s) =
        Cardinality({u \in UserIds :
                       /\ users[<<k[1], u>>].exists
                       /\ users[<<k[1], u>>].trial_start_date = k[2]
                       /\ users[<<k[1], u>>].status = s})

\* C4: a committing cohort transaction applies its update to the cohort record
\* as it is at the commit, never to a stale read, and touches no other record:
\* the counters are those of the transactions run one after the other in the
\* order of their commits.
C4_NoLostUpdate ==
  [][\A r \in Procs :
       Commits(r) =>
         cohorts' = [cohorts EXCEPT ![cohortKey(r)] =
                       Update(cohorts[cohortKey(r)], loc[r].trialStartDate,
                              loc[r].eventType, loc[r].prevStatus, loc[r].status)]]_vars

\* two overlapping requests for different users of one cohort both committed;
\* the second had read the cohort before the first committed, was aborted and
\* ran again on the first one's result
C4_Witness ==
  \E r1, r2 \in Procs :
    /\ Committed(r1) /\ Committed(r2)
    /\ cohortKey(r1) = cohortKey(r2)
    /\ loc[r1].appUserId # loc[r2].appUserId
    /\ attempts[r2] = 2
    /\ data[r2] = Update(data[r1], loc[r1].trialStartDate, loc[r1].eventType,
                         loc[r1].prevStatus, loc[r1].status)
    /\ data[r2] # data[r1]
    /\ cohorts[cohortKey(r2)] =
         Update(data[r2], loc[r2].trialStartDate, loc[r2].eventType,
                loc[r2].prevStatus, loc[r2].status)

\* C5: the same event processed again right after it was answered ok leaves
\* total_trials and every bucket counter of the user's cohort record as the
\* first processing left them (the values the second transaction read).
C5_RedeliveryKeepsCounters ==
  \A r \in Procs :
    (dup[r] /\ Committed(r)) =>
      Counters(cohorts[cohortKey(r)]) = Counters(data[r])

\* a redelivered event was processed to ok and its transaction moved the user
\* out of and back into a bucket holding only that user
C5_Witness ==
  \E r \in Procs :
    /\ dup[r] /\ Committed(r)
    /\ loc[r].prevStatus = loc[r].status
    /\ Bucket(cohorts[cohortKey(r)], loc[r].status) = 1

\* C6: total_trials of a cohort record never decreases, and it changes only by
\* +1, in the commit of a transaction whose event is INITIAL_PURCHASE and whose
\* request read no prior status.
C6_TotalTrialsMonotone ==
  [][\A k \in DOMAIN cohorts :
       /\ cohorts'[k].total_trials >= cohorts[k].total_trials
       /\ cohorts'[k].total_trials # cohorts[k].total_trials =>
            /\ cohorts'[k].total_trials = cohorts[k].total_trials + 1
            /\ \E r \in Procs :
                 /\ Commits(r)
                 /\ cohortKey(r) = k
                 /\ loc[r].eventType = "INITIAL_PURCHASE"
                 /\ loc[r].prevStatus = Null]_vars

\* an INITIAL_PURCHASE for a user that had a status committed without counting
\* a trial, in a cohort that had counted one
C6_Witness ==
  \E r \in Procs :
    /\ Committed(r)
    /\ loc[r].eventType = "INITIAL_PURCHASE"
    /\ loc[r].prevStatus # Null
    /\ data[r].total_trials = 1
    /\ cohorts[cohortKey(r)].total_trials = 1

\* C7: every rate of every cohort record is between 0 and 1 (0 and 10000
\* ten-thousandths).
C7_RatesWithinUnit ==
  \A k \in DOMAIN cohorts :
    /\ 0 <= cohorts[k].conversion_rate /\ cohorts[k].conversion_rate <= 10000
    /\ 0 <= cohorts[k].cancel_rate /\ cohorts[k].cancel_rate <= 10000
    /\ 0 <= cohorts[k].billing_rate /\ cohorts[k].billing_rate <= 10000

\* C8: once a user record's trial_start_date is set, no step changes it.
C8_TrialStartDateFrozen ==
  [][\A k \in DOMAIN users :
       (users[k].exists /\ users[k].trial_start_date # Null) =>
          users'[k].trial_start_date = users[k].trial_start_date]_vars

\* the request passed the method and authorization checks
Admitted(e) == e.method = "POST" /\ e.auth = Authorized
Sandbox(e) == e.environment = "SANDBOX"
NoUserId(e) == e.app_user_id = Null /\ e.original_app_user_id = Null

\* the request handled in slot r during a step that moves r
Moving(r) == IF pc[r] = "idle" THEN req'[r] ELSE req[r]

StoreUntouched == users' = users /\ cohorts' = cohorts

\* C9 as stated: a request without user identifier is answered 200 "skipped".
C9_MissingUserIdSkipped ==
  \A r \in Procs :
    (pc[r] = "responded" /\ Admitted(req[r]) /\ NoUserId(req[r])) =>
       (resp[r].code = 200 /\ resp[r].status = "skipped")

\* C9 as amended: an admitted request that is not a SANDBOX event and has no
\* user identifier is answered 400 "error" at once, and no step of it creates
\* or modifies a user record or a cohort record.
C9_MissingUserIdRejected ==
  [][\A r \in Procs :
       (pc'[r] # pc[r] /\ Admitted(Moving(r)) /\ ~Sandbox(Moving(r))
          /\ NoUserId(Moving(r))) =>
         /\ StoreUntouched
         /\ pc[r] = "idle" =>
              /\ pc'[r] = "responded"
              /\ resp'[r] = [code |-> 400, status |-> "error",
                             reason |-> "missing app_user_id"]]_vars

C9_Witness ==
  \E r \in Procs :
    /\ pc[r] = "responded"
    /\ Admitted(req[r]) /\ ~Sandbox(req[r]) /\ NoUserId(req[r])
    /\ resp[r].code = 400

RecognizedTypes ==
  {"INITIAL_PURCHASE", "RENEWAL", "CANCELLATION", "BILLING_ISSUE", "EXPIRATION",
   "UNCANCELLATION"}

\* C10 as stated: an admitted request whose event type is not recognized is
\* answered 200 "skipped".
C10_UnknownTypeSkipped ==
  \A r \in Procs :
    (pc[r] = "responded" /\ Admitted(req[r]) /\ req[r].type \notin RecognizedTypes) =>
       (resp[r].code = 200 /\ resp[r].status = "skipped")

\* an admitted request the handler is to skip: a SANDBOX event, or an event
\* with a user identifier whose application is not resolved or whose type is
\* not recognized
Skippable(e) ==
  /\ Admitted(e)
  /\ \/ Sandbox(e)
     \/ /\ ~NoUserId(e)
        /\ \/ LocalsOf[e].appSlug = Null
           \/ e.type \notin RecognizedTypes

\* C10 as amended: classifyFromEvent yields no status for an unrecognized
\* type; a skippable request is answered 200 "skipped" at once, before any
\* store call, and no step of it changes a user record or a cohort record.
C10_SkipsTouchNothing ==
  [][\A r \in Procs :
       (pc'[r] # pc[r] /\ Skippable(Moving(r))) =>
         /\ StoreUntouched
         /\ pc[r] = "idle" =>
              /\ pc'[r] = "responded"
              /\ resp'[r].code = 200 /\ resp'[r].status = "skipped"
              /\ Moving(r).type \notin RecognizedTypes =>
                   classifyFromEvent(Moving(r).type, Moving(r).cancel_reason,
                                     Moving(r).period_type) = Null]_vars

\* a request of unrecognized type for a known user and application was skipped
C10_Witness ==
  \E r \in Procs :
    /\ pc[r] = "responded"
    /\ Admitted(req[r]) /\ ~Sandbox(req[r]) /\ ~NoUserId(req[r])
    /\ req[r].type \notin RecognizedTypes
    /\ LocalsOf[req[r]].appSlug # Null
    /\ resp[r] = [code |-> 200, status |-> "skipped", reason |-> "unhandled_event_type"]

(***************************************************************************)
(* C11: a trial start followed by a renewal, from the empty store.         *)
(***************************************************************************)
\* the cohort record of the trial start held by slot 1
TrialCohort == cohorts[<<loc[1].appSlug, LocalsOf[req[1]].trialDate>>]

TrialStarted == pc[1] = "responded" /\ resp[1].status = "ok"
Renewed == pc[2] = "responded" /\ resp[2].status = "ok"

\* C11: from the empty store, once an INITIAL_PURCHASE with period TRIAL and
\* timestamp T of a new user U is processed, U is "Still in Trial" and the
\* cohort of date(T) has total_trials 1, in_trial 1 and all rates 0; once a
\* following RENEWAL of U is processed, U is "Converted" and the same cohort
\* has total_trials 1, in_trial 0, converted 1 and conversion_rate 1.
C11_TrialThenRenewal ==
  /\ (TrialStarted /\ started = 1) =>
        /\ users[userKey(1)].status = "Still in Trial"
        /\ users[userKey(1)].trial_start_date = LocalsOf[req[1]].trialDate
        /\ Counters(TrialCohort) = <<1, 1, 0, 0, 0>>
        /\ TrialCohort.conversion_rate = 0
        /\ TrialCohort.cancel_rate = 0
        /\ TrialCohort.billing_rate = 0
  /\ (TrialStarted /\ Renewed) =>
        /\ users[userKey(1)].status = "Converted"
        /\ Counters(TrialCohort) = <<1, 0, 1, 0, 0>>
        /\ TrialCohort.conversion_rate = 10000
        /\ \A k \in DOMAIN cohorts : cohorts[k].exists =>
              k = <<loc[1].appSlug, LocalsOf[req[1]].trialDate>>

\* the renewal carries another timestamp than the trial start and both have
\* been answered ok
C11_Witness ==
  /\ TrialStarted /\ Renewed
  /\ req[1].type = "INITIAL_PURCHASE" /\ req[1].period_type = "TRIAL"
  /\ req[2].type = "RENEWAL"
  /\ req[2].app_user_id = req[1].app_user_id
  /\ req[2].purchased_at_ms # req[1].purchased_at_ms
  /\ req[2].purchased_at_ms # MsZero


(***************************************************************************)
(* C12: the classification of events.                                      *)
(***************************************************************************)
\* the mapping as it is specified, by status
SpecifiedStatus(e) ==
  IF \/ e.type = "INITIAL_PURCHASE" /\ e.period_type = "TRIAL"
     \/ e.type = "UNCANCELLATION"
  THEN "Still in Trial"
  ELSE IF \/ e.type = "INITIAL_PURCHASE" /\ e.period_type # "TRIAL"
          \/ e.type = "RENEWAL"
  THEN "Converted"
  ELSE IF \/ e.type = "BILLING_ISSUE"
          \/ e.type = "CANCELLATION"
               /\ e.cancel_reason \in {"BILLING_ERROR", "CUSTOMER_SUPPORT"}
  THEN "Billing Issue"
  ELSE IF \/ e.type = "EXPIRATION"
          \/ e.type = "CANCELLATION"
               /\ e.cancel_reason \notin {"BILLING_ERROR", "CUSTOMER_SUPPORT"}
  THEN "Cancelled"
  ELSE Null

\* request r got as far as the classification of its event
Classified(r) ==
  /\ pc[r] # "idle"
  /\ Admitted(req[r]) /\ ~Sandbox(req[r]) /\ ~NoUserId(req[r])
  /\ LocalsOf[req[r]].appSlug # Null

\* C12: for every event type, cancel reason and period type the status the
\* handler works with, and writes to the user record, is the specified one;
\* an event without specified status is answered "skipped".
C12_ClassificationAsSpecified ==
  \A r \in Procs : Classified(r) =>
     IF SpecifiedStatus(req[r]) = Null
     THEN pc[r] = "responded" /\ resp[r].reason = "unhandled_event_type"
     ELSE /\ loc[r].status = SpecifiedStatus(req[r])
          /\ pc[r] \in {"tx.get", "tx.commit", "responded"} =>
                users[userKey(r)].status = SpecifiedStatus(req[r])

\* a cancellation by customer support has been recorded as a billing issue
C12_Witness ==
  \E r \in Procs :
    /\ Committed(r)
    /\ req[r].type = "CANCELLATION" /\ req[r].cancel_reason = "CUSTOMER_SUPPORT"
    /\ users[userKey(r)].status = "Billing Issue"
    /\ cohorts[cohortKey(r)].billing_issue = 1

(***************************************************************************)
(* C13: the resolution of the application.                                 *)
(***************************************************************************)
\* the applications, in declared order, one of whose identifier strings is
\* contained in the lower-cased product identifier
MatchingByProduct(productId) ==
  LET pid == toLowerCase(productId)
  IN  SelectSeq(SlugOrder,
        LAMBDA a : \E i \in DOMAIN APP_SLUGS[a] : includes(pid, APP_SLUGS[a][i]))

\* the resolution as it is specified
SpecifiedApp(e) ==
  LET hint == pathSlugOf(e.path)
      m == MatchingByProduct(e.product_id)
  IN  IF hint \in Slugs THEN hint
      ELSE IF m # << >> THEN Head(m)
      ELSE Null

\* computed once for the finite set of requests
SpecifiedAppOf == [e \in Requests |-> SpecifiedApp(e)]

\* request r got as far as the resolution of its application
Resolved(r) ==
  /\ pc[r] # "idle"
  /\ Admitted(req[r]) /\ ~Sandbox(req[r]) /\ ~NoUserId(req[r])

\* C13: the application a request is handled for is the routing hint exactly
\* when the hint is a configured slug, otherwise the first application in
\* declared order with an identifier contained in the lower-cased product
\* identifier, otherwise none (answered "unknown_app"); it is always a
\* configured slug or none.
C13_ResolutionAsSpecified ==
  \A r \in Procs : Resolved(r) =>
     IF SpecifiedAppOf[req[r]] = Null
     THEN pc[r] = "responded" /\ resp[r].reason = "unknown_app"
     ELSE /\ resp[r].reason # "unknown_app"
          /\ SpecifiedStatus(req[r]) # Null =>
                /\ loc[r].appSlug = SpecifiedAppOf[req[r]]
                /\ loc[r].appSlug \in Slugs

(***************************************************************************)
(* C14: method and authorization.                                          *)
(***************************************************************************)
\* the status code specified for a request that is not let in, or 0
SpecifiedRejection(e) ==
  IF e.method # "POST" THEN 405
  ELSE IF e.auth # "Bearer whsec" THEN 401
  ELSE 0

\* C14: with a secret configured, every step of a request that is not a POST
\* answers 405 and every step of a POST whose Authorization header is not
\* exactly "Bearer <secret>" (a missing header included) answers 401; the
\* request makes no store call and no user or cohort record changes.
C14_RejectedBeforeStore ==
  [][\A r \in Procs :
       (pc'[r] # pc[r] /\ SpecifiedRejection(Moving(r)) # 0) =>
          /\ pc[r] = "idle" => /\ pc'[r] = "responded"
                               /\ resp'[r].code = SpecifiedRejection(Moving(r))
                               /\ resp'[r].status = Null
          /\ pc[r] # "idle" => pc[r] = "responded" /\ pc'[r] = "idle"
          /\ StoreUntouched]_vars

\* a request with a wrongly spelled scheme has been answered 401 while user
\* and cohort records exist
C14_Witness ==
  \E r \in Procs :
    /\ pc[r] = "responded" /\ resp[r].code = 401
    /\ req[r].auth = "bearer whsec"
    /\ \E k \in DOMAIN users : users[k].exists
    /\ \E k \in DOMAIN cohorts : cohorts[k].exists

(***************************************************************************)
(* C15: a user is counted at most once.                                    *)
(***************************************************************************)
RECURSIVE BucketSum(_)
\* the sum of the four bucket counters over the cohort records with keys K
BucketSum(K) ==
  IF K = {} THEN 0
  ELSE LET k == CHOOSE x \in K : TRUE
       IN  cohorts[k].in_trial + cohorts[k].converted + cohorts[k].cancelled
             + cohorts[k].billing_issue + BucketSum(K \ {k})

\* the store has a record of user k and of no other user: every count in a
\* cohort record is then a contribution of k, as a request writes the user
\* record before its cohort transaction
OnlyUser(k) ==
  /\ users[k].exists
  /\ \A j \in DOMAIN users : j # k => ~users[j].exists

\* C15: under any interleaving of requests, a user is counted in at most one
\* bucket of at most one cohort record: when the store holds one user only,
\* the bucket counters of all cohort records sum up to at most 1.
C15_UserCountedOnce ==
  \A k \in DOMAIN users : OnlyUser(k) => BucketSum(DOMAIN cohorts) <= 1

(***************************************************************************)
(* C16: redelivery after a failed cohort transaction.                      *)
(***************************************************************************)
\* the request in slot 1 wrote the user record, its cohort transaction read
\* the cohort record and then failed for good
FailedInTransaction ==
  /\ pc[1] = "responded"
  /\ resp[1].code = 500
  /\ attempts[1] >= 1

\* C16: when the cohort transaction of a request failed after its user record
\* write and the same event, delivered again, has been processed to an ok
\* answer, the cohort record's total_trials and buckets are those one
\* successful processing of the event would have produced.
C16_RedeliveryAfterFailure ==
  (FailedInTransaction /\ req[2] = req[1] /\ Committed(2)) =>
     Counters(cohorts[cohortKey(1)]) =
       Counters(Update(data[1], loc[1].trialStartDate, loc[1].eventType,
                       loc[1].prevStatus, loc[1].status))

(***************************************************************************)
(* C17: a user starts at most one trial.                                   *)
(***************************************************************************)
RECURSIVE TotalTrialsSum(_)
\* the sum of total_trials over the cohort records with keys K
TotalTrialsSum(K) ==
  IF K = {} THEN 0
  ELSE LET k == CHOOSE x \in K : TRUE
       IN  cohorts[k].total_trials + TotalTrialsSum(K \ {k})

CohortsOf(app) == {k \in DOMAIN cohorts : k[1] = app}
UsersOf(app) == {k \in DOMAIN users : k[1] = app /\ users[k].exists}

\* C17: with one request processed at a time, the total_trials of all cohort
\* records of an application sum up to at most the number of its users,
\* however many INITIAL_PURCHASE events are delivered, and a step raises a
\* total_trials only for an INITIAL_PURCHASE of a user that had no status.
C17_OneTrialPerUser ==
  /\ [](\A app \in Apps :
          TotalTrialsSum(CohortsOf(app)) <= Cardinality(UsersOf(app)))
  /\ [][\A r \in Procs :
          (Commits(r) /\ cohorts'[cohortKey(r)].total_trials
                           # cohorts[cohortKey(r)].total_trials) =>
             /\ loc[r].eventType = "INITIAL_PURCHASE"
             /\ loc[r].prevStatus = Null
             /\ ~dup[r]]_vars

\* three INITIAL_PURCHASE events of one user, with different timestamps and
\* period types, have been processed and the user counts as one trial
C17_Witness ==
  \E r \in Procs :
    /\ started = 3 /\ Committed(r)
    /\ loc[r].eventType = "INITIAL_PURCHASE" /\ loc[r].prevStatus = "Converted"
    /\ loc[r].trialDate # loc[r].trialStartDate
    /\ Cardinality(UsersOf(loc[r].appSlug)) = 1
    /\ TotalTrialsSum(CohortsOf(loc[r].appSlug)) = 1

(***************************************************************************)
(* C18: the double count of a trial by overlapping purchases.              *)
(***************************************************************************)
\* q and r are INITIAL_PURCHASE requests of one user that both read the user
\* record before either wrote it, and both have been answered ok
BothReadNoStatus(q, r) ==
  /\ q # r
  /\ Committed(q) /\ Committed(r)
  /\ loc[q].eventType = "INITIAL_PURCHASE" /\ loc[r].eventType = "INITIAL_PURCHASE"
  /\ loc[q].prevStatus = Null /\ loc[r].prevStatus = Null
  /\ userKey(q) = userKey(r)
  /\ cohortKey(q) = cohortKey(r)

\* C18: two overlapping INITIAL_PURCHASE requests of one new user that both
\* read the user record before either writes it both increment total_trials
\* of the cohort record: the user is counted twice.
C18_BothPurchasesCounted ==
  \A q, r \in Procs :
    BothReadNoStatus(q, r) => cohorts[cohortKey(r)].total_trials >= 2

\* the store holds one user and its cohort record counts two trials
C18_Witness ==
  \E q, r \in Procs :
    /\ BothReadNoStatus(q, r)
    /\ OnlyUser(userKey(r))
    /\ cohorts[cohortKey(r)].total_trials = 2
    /\ TotalTrialsSum(DOMAIN cohorts) = 2

(***************************************************************************)
(* C19: what a request may change.                                         *)
(***************************************************************************)
\* the user record and the application of the event handled in slot r
EventUser(r) == <<LocalsOf[Moving(r)].appSlug, LocalsOf[Moving(r)].appUserId>>
EventApp(r) == LocalsOf[Moving(r)].appSlug

\* C19: every step of a request for (app, user) changes no user record other
\* than that user's and no cohort record other than the one of the same
\* application keyed by the trial_start_date the request wrote to the user
\* record; with no such date it changes no cohort record at all.
C19_FrameOfRequest ==
  [][\A r \in Procs : pc'[r] # pc[r] =>
       /\ \A k \in DOMAIN users : users'[k] # users[k] => k = EventUser(r)
       /\ \A k \in DOMAIN cohorts : cohorts'[k] # cohorts[k] =>
             /\ loc[r].trialStartDate # Null
             /\ k = <<EventApp(r), loc[r].trialStartDate>>
             /\ \A j \in DOMAIN cohorts : j # k => cohorts'[j] = cohorts[j]]_vars

\* a request has written its user record and its cohort record while the
\* record of another user and another cohort record exist
C19_Witness ==
  \E r \in Procs :
    /\ Committed(r)
    /\ \E k \in DOMAIN users : k # userKey(r) /\ users[k].exists
    /\ \E k \in DOMAIN cohorts : k # cohortKey(r) /\ cohorts[k].exists
    /\ cohorts[cohortKey(r)].exists

(***************************************************************************)
(* C20: every request is answered, and in order.                           *)
(***************************************************************************)
Running(r) == pc[r] \in {"userRef.get", "userRef.set", "tx.get", "tx.commit"}

\* a request has an answer exactly when it has responded
AnsweredWhenResponded ==
  \A r \in Procs :
    /\ (resp[r] # NoResponse) <=> (pc[r] = "responded")
    /\ pc[r] = "responded" => resp[r].code \in {200, 400, 401, 405, 500}
    /\ pc[r] \in {"tx.get", "tx.commit"} =>
          /\ users[<<LocalsOf[req[r]].appSlug, LocalsOf[req[r]].appUserId>>].exists
          /\ loc[r].trialStartDate # Null

\* the steps of request r keep the order of the handler
StepInOrder(r) ==
  /\ pc[r] = "responded" =>
        \/ pc'[r] = "responded" /\ resp'[r] = resp[r]
        \/ pc'[r] = "idle"
  /\ (pc[r] # "responded" /\ pc'[r] = "responded" /\ resp'[r].status = "ok") =>
        \/ /\ pc[r] = "userRef.set"
           /\ loc[r].trialStartDate = Null
           /\ users'[EventUser(r)].exists
           /\ users'[EventUser(r)].last_event = loc[r].eventType
        \/ /\ pc[r] = "tx.commit"
           /\ loc[r].trialStartDate # Null
           /\ cohorts'[<<EventApp(r), loc[r].trialStartDate>>] =
                 Update(cohorts[<<EventApp(r), loc[r].trialStartDate>>],
                        loc[r].trialStartDate, loc[r].eventType,
                        loc[r].prevStatus, loc[r].status)
  /\ (pc[r] \notin {"tx.get", "tx.commit"} /\ pc'[r] = "tx.get") =>
        /\ pc[r] = "userRef.set"
        /\ users'[EventUser(r)].exists
        /\ users'[EventUser(r)].status = loc[r].status
        /\ users'[EventUser(r)].trial_start_date = loc[r].trialStartDate

\* C20: when every store call eventually returns (with success or for good
\* with an error) and transactions are tried again fairly, every request is
\* eventually answered, and answered once; it is answered ok only in the
\* step that completes the user record write (no cohort key) or commits the
\* cohort transaction (cohort key), and the cohort transaction starts only
\* in the step that completes the user record write.
C20_AnsweredOnceInOrder ==
  /\ \A r \in Procs : Running(r) ~> (pc[r] = "responded")
  /\ []AnsweredWhenResponded
  /\ [][\A r \in Procs : StepInOrder(r)]_vars

\* a request has been answered ok after its transaction was tried again
\* because of the commit of another request, answered ok too
C20_Witness ==
  \E q, r \in Procs :
    /\ q # r
    /\ Committed(r) /\ attempts[r] >= 2
    /\ Committed(q) /\ attempts[q] = 1
====
